---- MODULE Spec2Model ----
(***************************************************************************)
(* State-machine model of the animated-image creation tools of the         *)
(* repository: src/MakeGif.py (frame list with undo/redo, export to GIF or  *)
(* WebP) and its earlier variant src/GIF Maker/MakeGif.py (no history).     *)
(*                                                                         *)
(* Python lists are objects: self.images, the lists stored in history       *)
(* entries and the list an export iterates over are references into `heap`. *)
(* Every Qt slot is one atomic action; the export loop of create_gif is     *)
(* split at QApplication.processEvents(), where other slots may run.        *)
(***************************************************************************)
EXTENDS Integers, Sequences, FiniteSets, TLC

VARIABLES
    tool,                 \* which program runs: "MakeGif" or "GIFMaker"
    heap,                 \* list objects: heap[r] is the content of list object r
    alloc,                \* history: alloc[r] is the content of object r when it was created
    images,               \* self.images: a reference into heap
    current_image_index,  \* self.current_image_index
    current_row,          \* self.image_list.currentRow()
    selected_items,       \* the rows of self.image_list.selectedItems()
    dragging,             \* a drag of an item of self.image_list is under way
    image_list,           \* the item texts of self.image_list, row 0 first
    preview,              \* file shown by self.preview_widget, "" when none
    fps,                  \* self.fps
    settings,             \* the export option widgets (see DefaultSettings)
    is_playing,           \* self.is_playing
    timer_active,         \* self.play_timer.isActive()
    timer_interval,       \* self.play_timer.interval(), in ms
    closed,               \* the main window was closed by the user
    undo_stack,           \* self.undo_stack
    redo_stack,           \* self.redo_stack
    progress_value,       \* self.progress_bar.value(), -1 until it is first set
    save_dialog,          \* the create_gif waiting in QFileDialog.getSaveFileName, if any
    exports,              \* activations of create_gif suspended in processEvents (innermost last)
    disk,                 \* destination files
    dialog,               \* last QMessageBox shown
    exc,                  \* unhandled exception that ended the program, NoExc when none
    recent,               \* history: the last mutation and what followed it (see Recent)
    lastOp,               \* history: the slot or export step that ran last
    batch                 \* src/PhotoDesqueezer.py: main, its futures, files and output

vars == <<tool, heap, alloc, images, current_image_index, current_row, selected_items,
          dragging, image_list, preview,
          fps, settings, is_playing, timer_active, timer_interval, closed,
          undo_stack, redo_stack, progress_value,
          save_dialog, exports, disk, dialog, exc, recent, lastOp, batch>>

\* the variables of the two GIF programs
guiVars == <<tool, heap, alloc, images, current_image_index, current_row, selected_items,
             dragging, image_list, preview,
             fps, settings, is_playing, timer_active, timer_interval, closed,
             undo_stack, redo_stack, progress_value,
             save_dialog, exports, disk, dialog, exc, recent, lastOp>>

----------------------------------------------------------------------------
(* Bounds of the model *)

\* longest frame list the model builds
MaxFrames == 3

\* most files picked in the dialog of src/PhotoDesqueezer.py
MaxBatch == 3

\* worker threads of ThreadPoolExecutor() when no max_workers is given:
\* min(32, cpu_count + 4), which is 5 on one processor and more on any other
MaxWorkers == 5

\* most commands that create list objects (select_images in both programs,
\* remove_selected_frame in src/MakeGif.py) in one run
MaxEdits == 2

\* activations of create_gif on the call stack when the button is pressed again
\* from inside processEvents()
MaxReentry == 2

\* source files the user can pick; "bad.png" cannot be decoded by Image.open
Files == {"a.png", "b.png", "bad.png"}

Corrupt(f) == f = "bad.png"

\* what one file dialog can return: one file, or two files
FileLists == {<<"a.png">>, <<"b.png", "bad.png">>, <<"a.png", "b.png", "bad.png">>}

\* destinations the save dialog can return
Dests == {"out"}

NoExc == [kind |-> "none", frame |-> -1]

\* a destination that was never written; fps is the frame rate handed to the encoder
Absent ==
    [status |-> "absent", frames |-> <<>>, format |-> "", fps |-> 0,
     loop |-> 0, optimize |-> FALSE, quality |-> 0]

\* self.fps after construction
DefaultFps == 24

\* the items of fps_combo the model lets the user pick
FpsChoices == {24, 30, 60}

\* the export option widgets after construction: loop_count_spin, resolution_combo,
\* optimize_toggle, quality_slider, output_format_combo. src/GIF Maker/MakeGif.py
\* has only the compress checkbox (unchecked) and the quality spin box; it loops
\* forever, keeps the resolution and writes GIF
DefaultSettings(program) ==
    [loop_count |-> 0, resolution |-> "Original", optimize |-> (program = "MakeGif"),
     quality |-> 85, output_format |-> "GIF"]

\* setRange of quality_slider (quality_spinbox in src/GIF Maker/MakeGif.py)
QualityMin == 1

QualityMax == 100

\* setRange of loop_count_spin
LoopMin == 0

LoopMax == 100

\* the values the user tries to give the quality and loop count widgets; some lie
\* outside the ranges
QualityTries == {0, 101}

LoopTries == {-1, 2}

\* no create_gif is waiting in the save dialog
NoSaveDialog == [open |-> FALSE, output_format |-> ""]

\* src/PhotoDesqueezer.py before main() has asked for files
NoBatch ==
    [phase |-> "dialog", file_paths |-> <<>>, futures |-> <<>>, started |-> <<>>,
     yielded |-> {}, tiffs |-> {}, stdout |-> <<>>]

\* the milliseconds in a second, as written in toggle_play
MsPerSecond == 1000

----------------------------------------------------------------------------
(* A slot is a function on the program state s, a record of the variables *)

\* the content of self.images
frames(s) == s.heap[s.images]

\* the frame list of the current state
Frames == heap[images]

\* an exception no slot catches
Raise(s, kind, frame) == [s EXCEPT !.exc = [kind |-> kind, frame |-> frame]]

\* a new list object holding v; its reference is NewRef(s)
NewRef(s) == Len(s.heap) + 1

NewList(s, v) == [s EXCEPT !.heap = Append(@, v), !.alloc = Append(@, v)]

\* Python's a % n for n > 0
PyMod(a, n) == ((a % n) + n) % n

Min(a, b) == IF a < b THEN a ELSE b

\* del lst[i] (0-based)
DelAt(lst, i) == [k \in 1..(Len(lst) - 1) |-> IF k <= i THEN lst[k] ELSE lst[k + 1]]

----------------------------------------------------------------------------
(* List view and preview *)

\* the list view is cleared and gets one item per frame, in the order of
\* self.images (os.path.basename leaves the model's file names as they are)
update_image_list(s) ==
    [s EXCEPT !.current_row = -1, !.selected_items = {}, !.image_list = frames(s)]

show_image(s, index) ==
    IF 0 <= index /\ index < Len(frames(s))
    THEN [s EXCEPT !.preview = frames(s)[index + 1],
                   !.current_image_index = index,
                   !.current_row = index,
                   !.selected_items = {index}]
    ELSE s

\* the slot of itemSelectionChanged: nothing when no item is selected
on_select_image(s) ==
    IF s.selected_items # {}
    THEN show_image(s, CHOOSE index \in s.selected_items : TRUE)
    ELSE s

\* a mouse press on row `row` of the list view (selection mode SingleSelection):
\* the row becomes the current one; a row that is not selected is selected alone
\* and itemSelectionChanged runs on_select_image, a selected row stays as it is
mousePressEvent(s, row) ==
    IF row \in s.selected_items
    THEN [s EXCEPT !.current_row = row]
    ELSE on_select_image([s EXCEPT !.current_row = row, !.selected_items = {row}])

\* the release of a Ctrl+click on a row that was selected when it was pressed: the
\* row is deselected and stays the current row; itemSelectionChanged runs
\* on_select_image, which finds no selected item
mouseReleaseEvent_ctrl(s, row) ==
    on_select_image([s EXCEPT !.current_row = row, !.selected_items = {}])

\* seq with the element at position from (1-based) taken out and put at position to
MoveItem(seq, from, to) ==
    LET rest == SubSeq(seq, 1, from - 1) \o SubSeq(seq, from + 1, Len(seq))
    IN SubSeq(rest, 1, to - 1) \o <<seq[from]>> \o SubSeq(rest, to, Len(rest))

\* mouseMoveEvent with the button held down on an item: the list view starts a
\* drag of the selected item, which runs (QDrag.exec) until the drop. The press
\* itself was an earlier event (mousePressEvent)
startDrag(s) == [s EXCEPT !.dragging = TRUE]

\* CustomListWidget.dropEvent without URLs: QListWidget's own drop of an
\* InternalMove drag, which ends the drag. It moves the selected item (the one
\* that was pressed, unless the selection changed since the press) to row `to`
\* (0-based) inside the widget, where it stays the current and selected item; a
\* drop on the row the item is in moves nothing
dropEvent(s, to) ==
    IF s.selected_items = {} \/ to \in s.selected_items
    THEN [s EXCEPT !.dragging = FALSE]
    ELSE LET from == CHOOSE row \in s.selected_items : TRUE
         IN [s EXCEPT !.image_list = MoveItem(s.image_list, from + 1, to + 1),
                      !.current_row = to,
                      !.selected_items = {to},
                      !.dragging = FALSE]

\* CustomListWidget.dropEvent with URLs: self.parent() is the page stack of
\* tab_widget, where addTab put the list, and has no add_images
dropEvent_urls(s, links) == Raise(s, "AttributeError", -1)

\* update_zoom: has_pixmap is the truth value of self.preview_widget.pixmap();
\* the preview is redrawn from self.images[self.current_image_index]
update_zoom(s, has_pixmap) ==
    IF has_pixmap
    THEN IF s.current_image_index < Len(frames(s))
         THEN [s EXCEPT !.preview = frames(s)[s.current_image_index + 1]]
         ELSE Raise(s, "IndexError", -1)
    ELSE s

----------------------------------------------------------------------------
(* History *)

\* a record() that forgets redo_stack.clear()
add_to_undo_stack_keeps_redo(s, action) ==
    [s EXCEPT !.undo_stack = Append(@, action)]

add_to_undo_stack(s, action) ==
    [s EXCEPT !.undo_stack = Append(@, action), !.redo_stack = <<>>]

\* an undo that restores the entry's new_state
undo_to_new_state(s) ==
    IF s.undo_stack # <<>>
    THEN LET action == s.undo_stack[Len(s.undo_stack)]
             s1 == [s EXCEPT !.undo_stack = SubSeq(@, 1, Len(@) - 1),
                             !.redo_stack = Append(@, action)]
             s2 == [s1 EXCEPT !.images = action.new_state]
         IN show_image(update_image_list(s2), 0)
    ELSE s

\* an undo that forgets self.redo_stack.append(action)
undo_drops_entry(s) ==
    IF s.undo_stack # <<>>
    THEN LET action == s.undo_stack[Len(s.undo_stack)]
             s1 == [s EXCEPT !.undo_stack = SubSeq(@, 1, Len(@) - 1)]
             s2 == [s1 EXCEPT !.images = action.old_state]
         IN show_image(update_image_list(s2), 0)
    ELSE s

\* self.images = old_state: the project now IS the list stored in the entry
undo(s) ==
    IF s.undo_stack # <<>>
    THEN LET action == s.undo_stack[Len(s.undo_stack)]
             s1 == [s EXCEPT !.undo_stack = SubSeq(@, 1, Len(@) - 1),
                             !.redo_stack = Append(@, action)]
             s2 == [s1 EXCEPT !.images = action.old_state]
         IN show_image(update_image_list(s2), 0)
    ELSE s

\* a redo without `if self.redo_stack:`: list.pop() raises on an empty list
redo_unguarded(s) ==
    IF s.redo_stack = <<>>
    THEN Raise(s, "IndexError", -1)
    ELSE LET action == s.redo_stack[Len(s.redo_stack)]
             s1 == [s EXCEPT !.redo_stack = SubSeq(@, 1, Len(@) - 1),
                             !.undo_stack = Append(@, action)]
             s2 == [s1 EXCEPT !.images = action.new_state]
         IN show_image(update_image_list(s2), 0)

redo(s) ==
    IF s.redo_stack # <<>>
    THEN LET action == s.redo_stack[Len(s.redo_stack)]
             s1 == [s EXCEPT !.redo_stack = SubSeq(@, 1, Len(@) - 1),
                             !.undo_stack = Append(@, action)]
             s2 == [s1 EXCEPT !.images = action.new_state]
         IN show_image(update_image_list(s2), 0)
    ELSE s

----------------------------------------------------------------------------
(* Mutations of the frame list *)

\* src/MakeGif.py: old_images = copy; extend in place; record (old copy, new copy)
add_images(s, files) ==
    LET old_images == NewRef(s)
        s1 == NewList(s, frames(s))
        s2 == [s1 EXCEPT !.heap[s1.images] = @ \o files]
        s3 == show_image(update_image_list(s2), Len(s2.heap[old_images]))
        new_images == NewRef(s3)
        s4 == NewList(s3, frames(s3))
    IN add_to_undo_stack(s4, [action_type |-> "add_images",
                              old_state |-> old_images,
                              new_state |-> new_images])

\* the file dialog returned `files` (not empty)
select_images(s, files) ==
    IF s.tool = "MakeGif"
    THEN add_images(s, files)
    ELSE LET r == NewRef(s)
             s1 == [NewList(s, files) EXCEPT !.images = r]
         IN show_image(update_image_list(s1), 0)

\* a removal that drops the last frame (self.images.pop()) whatever row is selected
remove_row_pop(s, current_row_) ==
    LET s1 == [s EXCEPT !.heap[s.images] = SubSeq(@, 1, Len(@) - 1)]
        s2 == update_image_list(s1)
    IN IF frames(s2) # <<>>
       THEN show_image(s2, Min(current_row_, Len(frames(s2)) - 1))
       ELSE [s2 EXCEPT !.preview = ""]

\* the part of remove_selected_frame both programs share: del, refresh, preview
remove_row(s, current_row_) ==
    LET s1 == [s EXCEPT !.heap[s.images] = DelAt(@, current_row_)]
        s2 == update_image_list(s1)
    IN IF frames(s2) # <<>>
       THEN show_image(s2, Min(current_row_, Len(frames(s2)) - 1))
       ELSE [s2 EXCEPT !.preview = ""]

remove_selected_frame(s) ==
    LET row == s.current_row IN
    IF row = -1 THEN s
    ELSE IF row >= Len(frames(s)) THEN Raise(s, "IndexError", -1)
    ELSE IF s.tool = "MakeGif"
    THEN LET old_images == NewRef(s)
             s1 == NewList(s, frames(s))
             s2 == remove_row(s1, row)
             new_images == NewRef(s2)
             s3 == NewList(s2, frames(s2))
         IN add_to_undo_stack(s3, [action_type |-> "remove_frame",
                                   old_state |-> old_images,
                                   new_state |-> new_images])
    ELSE remove_row(s, row)

----------------------------------------------------------------------------
(* Playback *)

\* an update_fps that also resets the history
update_fps_resets_history(s, value) == [s EXCEPT !.fps = value, !.redo_stack = <<>>, !.undo_stack = <<>>]

update_fps(s, value) == [s EXCEPT !.fps = value]

\* a toggle_play that schedules the tick at round(1000 / fps) ms
toggle_play_rounded(s) ==
    IF s.is_playing
    THEN [s EXCEPT !.timer_active = FALSE, !.is_playing = FALSE]
    ELSE [s EXCEPT !.timer_active = TRUE,
                   !.timer_interval = (2 * MsPerSecond + s.fps) \div (2 * s.fps),
                   !.is_playing = TRUE]

\* play_timer.stop() keeps the interval; play_timer.start(1000 // self.fps) sets it
toggle_play(s) ==
    IF s.is_playing
    THEN [s EXCEPT !.timer_active = FALSE, !.is_playing = FALSE]
    ELSE [s EXCEPT !.timer_active = TRUE,
                   !.timer_interval = MsPerSecond \div s.fps,
                   !.is_playing = TRUE]

\* a next_frame without the modulo: show_image ignores the index past the end
next_frame_no_wrap(s) ==
    IF Len(frames(s)) = 0
    THEN Raise(s, "ZeroDivisionError", -1)
    ELSE show_image(s, s.current_image_index + 1)

next_frame(s) ==
    IF Len(frames(s)) = 0
    THEN Raise(s, "ZeroDivisionError", -1)
    ELSE show_image(s, PyMod(s.current_image_index + 1, Len(frames(s))))

prev_frame(s) ==
    IF Len(frames(s)) = 0
    THEN Raise(s, "ZeroDivisionError", -1)
    ELSE show_image(s, PyMod(s.current_image_index - 1, Len(frames(s))))

----------------------------------------------------------------------------
(* Export: create_gif. One activation is [it, pos, out, output_file, start]:     *)
(* the list object the for loop iterates, the iterator's position, the local    *)
(* list `images` of processed frames, the destination, and (history) the        *)
(* content of self.images when the export started.                              *)

\* what Image.open finds in a file: the pixel mode and the size in pixels
Mode(f) == IF f = "a.png" THEN "LA" ELSE "RGBA"

Width(f) == IF f = "a.png" THEN 1000 ELSE 640

Height(f) == IF f = "a.png" THEN 667 ELSE 480

\* Image.open(file_name)
open(file_name) ==
    [mode |-> Mode(file_name), width |-> Width(file_name), height |-> Height(file_name)]

\* the items of resolution_combo
ResolutionItems == {"Original", "1080p", "720p", "480p", "360p"}

\* int(resolution[:-1]) for the items other than "Original"
TargetHeight(resolution) ==
    CASE resolution = "1080p" -> 1080
      [] resolution = "720p" -> 720
      [] resolution = "480p" -> 480
      [] resolution = "360p" -> 360

\* the side of the square of img.thumbnail((800, 800))
ThumbnailSide == 800

\* |a - b|
Dist(a, b) == IF a >= b THEN a - b ELSE b - a

\* Python's float is the IEEE-754 double: 53 significant bits, every operation
\* rounded to the nearest double (ties to the even one). The operators below
\* compute with integers what the float expressions of the code give, for
\* operands of the size of image sides (all products stay below 2^31)
RECURSIVE Pow2(_)
Pow2(k) == IF k = 0 THEN 1 ELSE 2 * Pow2(k - 1)

RECURSIVE Pow2Mod(_, _)
\* 2^t modulo n
Pow2Mod(t, n) == IF t = 0 THEN 1 % n ELSE (2 * Pow2Mod(t - 1, n)) % n

RECURSIVE ExponentUp(_, _, _)
ExponentUp(a, n, c) == IF 2 * n <= a THEN ExponentUp(a, 2 * n, c + 1) ELSE c

RECURSIVE ExponentDown(_, _, _)
ExponentDown(a, n, c) == IF a < n THEN ExponentDown(2 * a, n, c - 1) ELSE c

\* the binary exponent of a / n: the c with 2^c <= a / n < 2^(c + 1), for a, n > 0
Exponent(a, n) == IF a >= n THEN ExponentUp(a, n, 0) ELSE ExponentDown(a, n, 0)

\* what rounding adds to the quotient of the integers a, n > 0: the float a / n is
\* the fraction a / n plus RoundingError(a, n) / n units of its last bit, a unit
\* being 2^(Exponent(a, n) - 52)
RoundingError(a, n) ==
    LET rem == ((a % n) * Pow2Mod(52 - Exponent(a, n), n)) % n
    IN IF 2 * rem < n THEN -rem ELSE n - rem

\* RoundingError(a, n) in units of 2^(m - 52), for m <= Exponent(a, n)
ScaledError(a, n, m) == RoundingError(a, n) * Pow2(Exponent(a, n) - m)

\* int(a / n * s) as Python computes it for integers a >= 0, n > 0, s > 0: the
\* quotient a / n is rounded to a double, the product with s is rounded again and
\* int() truncates. The result is the exact floor of a * s / n, except where
\* a * s / n is a whole number k, the quotient was rounded down and the product
\* stays more than half a step of the doubles below k away from k: then k - 1
TruncatedProduct(a, n, s) ==
    LET k == (a * s) \div n
    IN IF a = 0 \/ (a * s) % n # 0
       THEN k
       ELSE LET c == Exponent(a, n)
                r == RoundingError(a, n)
                E == Exponent(k, 1)
                x == E - c - (IF k = Pow2(E) THEN 2 ELSE 1)
            IN IF r >= 0
               THEN k
               ELSE IF s * (-r) * Pow2(IF x < 0 THEN -x ELSE 0)
                          <= n * Pow2(IF x > 0 THEN x ELSE 0)
                    THEN k
                    ELSE k - 1

\* min(f, c, key=lambda n: abs(aspect - n / y)) of Image.thumbnail picks f when
\* the exact ratios f / y and c / y = (f + 1) / y are equally far from w / h: the
\* floats decide, and the key of f is the smaller or equal one when twice the
\* rounding error of w / h is at most the sum of those of f / y and c / y
FloorKeyWinsWidth(w, h, f, c, y) ==
    LET m == Min(Exponent(w, h), Min(Exponent(f, y), Exponent(c, y)))
    IN 2 * y * ScaledError(w, h, m) <= h * (ScaledError(f, y, m) + ScaledError(c, y, m))

\* the same for min(f, c, key=lambda n: abs(aspect - x / n)) when x / f and x / c
\* are equally far from w / h
FloorKeyWinsHeight(w, h, f, c, x) ==
    LET m == Min(Exponent(w, h), Min(Exponent(x, f), Exponent(x, c)))
    IN h * (c * ScaledError(x, f, m) + f * ScaledError(x, c, m))
           <= 2 * f * c * ScaledError(w, h, m)

\* Image.thumbnail((side, side)) of Pillow: an image that fits is left alone;
\* otherwise the longer side becomes `side` and the other one the floor or the
\* ceiling of its scaled length, whichever keeps the aspect ratio closer (on a
\* tie the one whose float key is smaller, the floor when the keys are equal),
\* and at least 1
thumbnail(img, side) ==
    IF side >= img.width /\ side >= img.height
    THEN img
    ELSE IF img.height >= img.width
    THEN LET f == (side * img.width) \div img.height
             c == IF f * img.height = side * img.width THEN f ELSE f + 1
             df == Dist(side * img.width, f * img.height)
             dc == Dist(side * img.width, c * img.height)
             x == IF f >= 1 /\ f < c /\ df = dc
                  THEN IF FloorKeyWinsWidth(img.width, img.height, f, c, side)
                       THEN f ELSE c
                  ELSE IF df <= dc THEN f ELSE c
         IN [img EXCEPT !.width = IF x < 1 THEN 1 ELSE x, !.height = side]
    ELSE LET f == (side * img.height) \div img.width
             c == IF f * img.width = side * img.height THEN f ELSE f + 1
             df == Dist(img.width * f, side * img.height) * c
             dc == Dist(img.width * c, side * img.height) * f
             y == IF f = 0 THEN f
                  ELSE IF f < c /\ df = dc
                  THEN IF FloorKeyWinsHeight(img.width, img.height, f, c, side)
                       THEN f ELSE c
                  ELSE IF df <= dc THEN f ELSE c
         IN [img EXCEPT !.width = side, !.height = IF y < 1 THEN 1 ELSE y]

\* img.convert('RGB') when the mode is 'RGBA'
flatten(img) == IF img.mode = "RGBA" THEN [img EXCEPT !.mode = "RGB"] ELSE img

\* the resize to the height of resolution_combo; src/GIF Maker/MakeGif.py has no
\* such step
resize(s, img) ==
    IF s.tool = "MakeGif" /\ s.settings.resolution # "Original"
    THEN LET height == TargetHeight(s.settings.resolution)
         IN [img EXCEPT !.width = TruncatedProduct(height, img.height, img.width),
                        !.height = height]
    ELSE img

\* a decode that caps the frame before it changes the resolution
decode_cap_first(s, file_name) ==
    LET img == flatten(open(file_name))
    IN resize(s, IF s.settings.optimize THEN thumbnail(img, ThumbnailSide) ELSE img)

\* the frame handed to np.array: opened, flattened, resized, capped
decode(s, file_name) ==
    LET img == resize(s, flatten(open(file_name)))
    IN IF s.settings.optimize THEN thumbnail(img, ThumbnailSide) ELSE img

\* the factor of progress_bar.setValue in the loop
ProgressScale(s) == IF s.tool = "MakeGif" THEN 50 ELSE 100

\* QProgressBar.setValue: a value outside 0..100 is ignored
setValue(s, v) == IF 0 <= v /\ v <= 100 THEN [s EXCEPT !.progress_value = v] ELSE s

\* one pass of the body of `for i, file_name in enumerate(self.images)`, up to
\* QApplication.processEvents()
export_frame(s) ==
    LET n == Len(s.exports)
        e == s.exports[n]
        i == e.pos
        file_name == s.heap[e.it][i + 1]
    IN IF Corrupt(file_name)
       THEN Raise(s, "UnidentifiedImageError", i)
       ELSE LET s1 == [s EXCEPT !.exports[n].out = Append(@, file_name),
                                !.exports[n].arrays = Append(@, decode(s, file_name)),
                                !.exports[n].pos = i + 1]
            IN IF Len(frames(s1)) = 0
               THEN Raise(s1, "ZeroDivisionError", i)
               ELSE setValue(s1, TruncatedProduct(i + 1, Len(frames(s1)),
                                                  ProgressScale(s1)))

\* output_format_combo.currentText().lower()
lower(text) == IF text = "GIF" THEN "gif" ELSE IF text = "WebP" THEN "webp" ELSE text

\* a create_gif that opens the save dialog before it looks at self.images
create_gif_late_check(s) ==
    [s EXCEPT !.save_dialog = [open |-> TRUE,
                               output_format |-> lower(s.settings.output_format)]]

\* create_gif up to QFileDialog.getSaveFileName: the warning for an empty project,
\* else the format is read and the modal save dialog opens
create_gif(s) ==
    IF frames(s) = <<>>
    THEN [s EXCEPT !.dialog = "No Images"]
    ELSE [s EXCEPT !.save_dialog = [open |-> TRUE,
                                    output_format |-> lower(s.settings.output_format)]]

\* create_gif from the return of the save dialog up to the first processEvents();
\* output_file = "" when the dialog was cancelled
create_gif_save(s, output_file) ==
    LET closed_dialog == [s EXCEPT !.save_dialog = NoSaveDialog]
    IN IF output_file = ""
       THEN closed_dialog
       ELSE LET e == [it |-> s.images, pos |-> 0, out |-> <<>>, arrays |-> <<>>,
                      output_format |-> s.save_dialog.output_format,
                      output_file |-> output_file, start |-> frames(s)]
                s1 == [setValue(closed_dialog, 0) EXCEPT !.exports = Append(@, e)]
            IN IF frames(s) = <<>> THEN s1 ELSE export_frame(s1)

\* a loop argument that is always 0
loop_kwarg_forever(s) == 0

\* the loop argument of imageio.mimsave: loop_count_spin.value(), or the literal 0
\* of src/GIF Maker/MakeGif.py
loop_kwarg(s) == IF s.tool = "MakeGif" THEN s.settings.loop_count ELSE 0

\* the file imageio.mimsave writes from the frames and keyword arguments of
\* activation e: optimize and quality are passed for a GIF only when the optimize
\* box is checked, quality always for a WebP; quality 0 stands for not passed
mimsave(s, e) ==
    LET webp == s.tool = "MakeGif" /\ e.output_format = "webp"
    IN [status |-> "complete", frames |-> e.out,
        format |-> IF webp THEN "webp" ELSE "gif",
        fps |-> s.fps, loop |-> loop_kwarg(s),
        optimize |-> ~webp /\ s.settings.optimize,
        quality |-> IF webp \/ s.settings.optimize THEN s.settings.quality ELSE 0]

\* what imageio.mimsave can do: write the file, raise before creating it, or
\* raise after it began writing
MimsaveOutcomes == {"written", "raised", "raised_partial"}

\* a create_gif that drops the redo history once the file is written
create_gif_finish_drops_redo(s, outcome) ==
    LET n == Len(s.exports)
        e == s.exports[n]
        done == [s EXCEPT !.exports = SubSeq(@, 1, n - 1)]
    IN IF e.out = <<>>
       THEN done
       ELSE IF outcome = "written"
       THEN [setValue(done, 100) EXCEPT
                !.disk[e.output_file] =
                    mimsave(s, e),
                !.redo_stack = <<>>,
                !.dialog = "Success"]
       ELSE IF outcome = "raised_partial"
       THEN [Raise(s, "mimsave", -1) EXCEPT
                !.disk[e.output_file] =
                    [mimsave(s, e) EXCEPT !.status = "partial", !.frames = <<>>]]
       ELSE Raise(s, "mimsave", -1)

\* create_gif after the loop: `if images:` ... mimsave, progress 100, message
create_gif_finish(s, outcome) ==
    LET n == Len(s.exports)
        e == s.exports[n]
        done == [s EXCEPT !.exports = SubSeq(@, 1, n - 1)]
    IN IF e.out = <<>>
       THEN done
       ELSE IF outcome = "written"
       THEN [setValue(done, 100) EXCEPT
                !.disk[e.output_file] =
                    mimsave(s, e),
                !.dialog = "Success"]
       ELSE IF outcome = "raised_partial"
       THEN [Raise(s, "mimsave", -1) EXCEPT
                !.disk[e.output_file] =
                    [mimsave(s, e) EXCEPT !.status = "partial", !.frames = <<>>]]
       ELSE Raise(s, "mimsave", -1)

----------------------------------------------------------------------------
(* The variables as one record, and the step that makes a slot's result the     *)
(* next state                                                                   *)

St ==
    [tool |-> tool, heap |-> heap, alloc |-> alloc, images |-> images,
     current_image_index |-> current_image_index, current_row |-> current_row,
     selected_items |-> selected_items, dragging |-> dragging,
     image_list |-> image_list, preview |-> preview, fps |-> fps, settings |-> settings,
     is_playing |-> is_playing, timer_active |-> timer_active,
     timer_interval |-> timer_interval, closed |-> closed,
     undo_stack |-> undo_stack, redo_stack |-> redo_stack,
     progress_value |-> progress_value, save_dialog |-> save_dialog,
     exports |-> exports, disk |-> disk,
     dialog |-> dialog, exc |-> exc]

\* the command op changes the frame list: a select_images, or a
\* remove_selected_frame with a row selected
Mutates(op) ==
    \/ op = "select_images"
    \/ op = "remove_selected_frame" /\ current_row # -1

\* recent after command op with result s. cmds is "mut" after a mutation (before
\* and after are the frame list around it), "mut_undo" after a mutation and then
\* an undo, "mut_undo_redo" after a redo following that; "undo_noop" and
\* "redo_noop" after an undo or redo that found its stack empty; "other" after any
\* other undo or redo. Commands that are no mutation, undo or redo leave it alone.
Recent(s, op) ==
    IF Mutates(op)
    THEN [cmds |-> "mut", before |-> Frames, after |-> frames(s)]
    ELSE IF op = "undo"
    THEN [recent EXCEPT !.cmds = IF undo_stack = <<>> THEN "undo_noop"
                                 ELSE IF recent.cmds = "mut" THEN "mut_undo"
                                 ELSE "other"]
    ELSE IF op = "redo"
    THEN [recent EXCEPT !.cmds = IF redo_stack = <<>> THEN "redo_noop"
                                 ELSE IF recent.cmds = "mut_undo" THEN "mut_undo_redo"
                                 ELSE "other"]
    ELSE recent

Becomes(s, op) ==
    /\ tool' = s.tool
    /\ heap' = s.heap
    /\ alloc' = s.alloc
    /\ images' = s.images
    /\ current_image_index' = s.current_image_index
    /\ current_row' = s.current_row
    /\ selected_items' = s.selected_items
    /\ dragging' = s.dragging
    /\ image_list' = s.image_list
    /\ preview' = s.preview
    /\ fps' = s.fps
    /\ settings' = s.settings
    /\ is_playing' = s.is_playing
    /\ timer_active' = s.timer_active
    /\ timer_interval' = s.timer_interval
    /\ closed' = s.closed
    /\ undo_stack' = s.undo_stack
    /\ redo_stack' = s.redo_stack
    /\ progress_value' = s.progress_value
    /\ save_dialog' = s.save_dialog
    /\ exports' = s.exports
    /\ disk' = s.disk
    /\ dialog' = s.dialog
    /\ exc' = s.exc
    /\ recent' = Recent(s, op)
    /\ lastOp' = op
    /\ batch' = batch

\* the list-creating commands so far: src/MakeGif.py creates two lists in each,
\* src/GIF Maker/MakeGif.py one in each select_images
Edits == IF tool = "MakeGif" THEN (Len(heap) - 1) \div 2 ELSE Len(heap) - 1

Init ==
    /\ tool \in {"MakeGif", "GIFMaker"}
    /\ heap = << <<>> >>
    /\ alloc = << <<>> >>
    /\ images = 1
    /\ current_image_index = 0
    /\ current_row = -1
    /\ selected_items = {}
    /\ dragging = FALSE
    /\ image_list = <<>>
    /\ preview = ""
    /\ fps = DefaultFps
    /\ settings = DefaultSettings(tool)
    /\ is_playing = FALSE
    /\ timer_active = FALSE
    /\ timer_interval = 0
    /\ closed = FALSE
    /\ undo_stack = <<>>
    /\ redo_stack = <<>>
    /\ progress_value = -1
    /\ save_dialog = NoSaveDialog
    /\ exports = <<>>
    /\ disk = [d \in Dests |-> Absent]
    /\ dialog = "none"
    /\ exc = NoExc
    /\ recent = [cmds |-> "none", before |-> <<>>, after |-> <<>>]
    /\ lastOp = "init"
    /\ batch = NoBatch

\* the program runs until an exception escapes a slot, or until its window is
\* closed and create_gif has returned to the event loop
Running == exc = NoExc /\ ~(closed /\ exports = <<>>)

\* the window is there for the user to act on: it is not closed, no modal save
\* dialog is in front of it and the mouse is not held by a drag
Open == Running /\ ~closed /\ ~save_dialog.open /\ ~dragging

SelectImages ==
    /\ Open
    /\ Edits < MaxEdits
    /\ \E files \in FileLists :
          /\ Len(Frames) + Len(files) <= MaxFrames
          /\ Becomes(select_images(St, files), "select_images")

RemoveSelectedFrame ==
    /\ Open
    /\ tool = "MakeGif" => Edits < MaxEdits
    /\ Becomes(remove_selected_frame(St), "remove_selected_frame")

\* the user presses the mouse on a row of the list view that is not selected (a
\* click, or the press that a drag begins with): itemSelectionChanged
OnSelectImage ==
    /\ Open
    /\ \E row \in 0..(Len(image_list) - 1) :
          /\ row \notin selected_items
          /\ Becomes(mousePressEvent(St, row), "on_select_image")

\* the user Ctrl+clicks the selected row of the list view: itemSelectionChanged
DeselectRow ==
    /\ Open
    /\ \E row \in selected_items :
          Becomes(mouseReleaseEvent_ctrl(St, row), "deselect_row")

\* the user, having pressed on an item of the list view (OnSelectImage when the
\* item was not selected), moves the mouse and the drag of the selected item
\* starts (only the list of src/MakeGif.py is set to InternalMove); the event
\* loop ran between the press and this
DragStart ==
    /\ Open
    /\ tool = "MakeGif"
    /\ selected_items # {}
    /\ Becomes(startDrag(St), "start_drag")

\* the user drops the dragged item on a row of the list view; until then the drag
\* keeps the mouse, and timers go on firing
DragRow ==
    /\ Running
    /\ dragging
    /\ \E to \in 0..(Len(image_list) - 1) :
          Becomes(dropEvent(St, to), "drop_event")

\* the user drops files from outside onto the list view of src/MakeGif.py
DropFiles ==
    /\ Open
    /\ tool = "MakeGif"
    /\ \E links \in FileLists :
          Becomes(dropEvent_urls(St, links), "drop_event_urls")

Undo ==
    /\ Open
    /\ tool = "MakeGif"
    /\ Becomes(undo(St), "undo")

Redo ==
    /\ Open
    /\ tool = "MakeGif"
    /\ Becomes(redo(St), "redo")

TogglePlay ==
    /\ Open
    /\ Becomes(toggle_play(St), "toggle_play")

\* fps_combo.currentTextChanged
UpdateFps ==
    /\ Open
    /\ \E value \in FpsChoices \ {fps} :
          Becomes(update_fps(St, value), "update_fps")

\* zoom_slider.valueChanged (src/MakeGif.py only); a pixmap that was never set, or
\* was cleared, may or may not count as true
UpdateZoom ==
    /\ Open
    /\ tool = "MakeGif"
    /\ \E has_pixmap \in (IF preview # "" THEN {TRUE} ELSE BOOLEAN) :
          Becomes(update_zoom(St, has_pixmap), "update_zoom")

\* a widget that takes any value it is given
bound_unchecked(v, lo, hi) == v

\* QSlider.setValue and QSpinBox.setValue: the value is bound to the range given
\* to setRange
bound(v, lo, hi) == IF v < lo THEN lo ELSE IF v > hi THEN hi ELSE v

\* the user moves quality_slider (types into quality_spinbox)
SetQuality ==
    /\ Open
    /\ \E v \in QualityTries :
          Becomes([St EXCEPT !.settings.quality = bound(v, QualityMin, QualityMax)],
                  IF QualityMin <= v /\ v <= QualityMax
                  THEN "set_quality" ELSE "set_quality_bounded")

\* the user types into loop_count_spin
SetLoopCount ==
    /\ Open
    /\ tool = "MakeGif"
    /\ \E v \in LoopTries :
          Becomes([St EXCEPT !.settings.loop_count = bound(v, LoopMin, LoopMax)],
                  IF LoopMin <= v /\ v <= LoopMax
                  THEN "set_loop_count" ELSE "set_loop_count_bounded")

\* the user picks an item of resolution_combo
SetResolution ==
    /\ Open
    /\ tool = "MakeGif"
    /\ \E item \in ResolutionItems :
          Becomes([St EXCEPT !.settings.resolution = item], "set_resolution")

\* the user picks an item of output_format_combo
SetOutputFormat ==
    /\ Open
    /\ tool = "MakeGif"
    /\ \E item \in {"GIF", "WebP"} :
          Becomes([St EXCEPT !.settings.output_format = item], "set_output_format")

\* the user clicks optimize_toggle (compress_checkbox)
ToggleOptimize ==
    /\ Open
    /\ Becomes([St EXCEPT !.settings.optimize = ~settings.optimize], "toggle_optimize")

\* the user closes the main window: nothing in the program reacts to it
CloseWindow ==
    /\ Open
    /\ Becomes([St EXCEPT !.closed = TRUE], "close")

\* self.play_timer.timeout
TimerTick ==
    /\ Running
    /\ timer_active
    /\ Becomes(next_frame(St), "timer_tick")

NextFrame ==
    /\ Open
    /\ Becomes(next_frame(St), "next_frame")

PrevFrame ==
    /\ Open
    /\ Becomes(prev_frame(St), "prev_frame")

\* create_button.clicked or Ctrl+S while no export is under way
CreateGif ==
    /\ Open
    /\ exports = <<>>
    /\ Becomes(create_gif(St), "create_gif")

\* create_button.clicked or Ctrl+S delivered by the processEvents() call of an
\* export that is under way: the slot runs on top of the suspended activation
CreateGifDuringExport ==
    /\ Open
    /\ exports # <<>>
    /\ Len(exports) < MaxReentry
    /\ Becomes(create_gif(St), "create_gif")

\* the save dialog returns with a file name
GetSaveFileName ==
    /\ Running
    /\ save_dialog.open
    /\ \E output_file \in Dests :
          Becomes(create_gif_save(St, output_file), "create_gif_save")

\* the save dialog is cancelled
GetSaveFileNameCancelled ==
    /\ Running
    /\ save_dialog.open
    /\ Becomes(create_gif_save(St, ""), "create_gif_save")

\* processEvents() returned and the iterator has another item
ExportNextFrame ==
    /\ Running
    /\ ~save_dialog.open
    /\ ~dragging
    /\ exports # <<>>
    /\ exports[Len(exports)].pos < Len(heap[exports[Len(exports)].it])
    /\ Becomes(export_frame(St), "export_frame")

\* processEvents() returned and the iterator is exhausted
ExportFinish ==
    /\ Running
    /\ ~save_dialog.open
    /\ ~dragging
    /\ exports # <<>>
    /\ exports[Len(exports)].pos >= Len(heap[exports[Len(exports)].it])
    /\ \E outcome \in MimsaveOutcomes :
          Becomes(create_gif_finish(St, outcome), "create_gif_finish")

Next ==
    \/ SelectImages
    \/ RemoveSelectedFrame
    \/ OnSelectImage
    \/ DeselectRow
    \/ Undo
    \/ Redo
    \/ TogglePlay
    \/ TimerTick
    \/ NextFrame
    \/ PrevFrame
    \/ CreateGif
    \/ GetSaveFileName
    \/ GetSaveFileNameCancelled
    \/ ExportNextFrame
    \/ ExportFinish

\* both programs: editing, history, preview, playback and export, exports
\* interleaved with the other slots, frame rate and options as constructed
Spec == Init /\ [][Next]_vars

\* the runs in which no export is started: every slot, the save dialog cancelled
NextEdit ==
    \/ SelectImages
    \/ RemoveSelectedFrame
    \/ OnSelectImage
    \/ DeselectRow
    \/ Undo
    \/ Redo
    \/ TogglePlay
    \/ TimerTick
    \/ NextFrame
    \/ PrevFrame
    \/ CreateGif
    \/ GetSaveFileNameCancelled

SpecEdit == Init /\ [][NextEdit]_vars

\* the runs of preview and playback: frames are added and removed, shown, played
\* and zoomed, the frame rate is changed; no undo, redo or export
NextPlay ==
    \/ SelectImages
    \/ RemoveSelectedFrame
    \/ OnSelectImage
    \/ DeselectRow
    \/ TogglePlay
    \/ TimerTick
    \/ NextFrame
    \/ PrevFrame
    \/ UpdateFps
    \/ UpdateZoom

SpecPlay == Init /\ [][NextPlay]_vars

\* the runs of export: frames are added, removed and undone, options and frame
\* rate are set, the window is closed, all of it also while an export is suspended
\* in processEvents()
NextExport ==
    \/ SelectImages
    \/ RemoveSelectedFrame
    \/ Undo
    \/ UpdateFps
    \/ SetLoopCount
    \/ SetOutputFormat
    \/ CloseWindow
    \/ CreateGif
    \/ GetSaveFileName
    \/ GetSaveFileNameCancelled
    \/ ExportNextFrame
    \/ ExportFinish

SpecExport == Init /\ [][NextExport]_vars

\* the runs of export in which frames are only added and undone
NextExportAdd ==
    \/ SelectImages
    \/ Undo
    \/ UpdateFps
    \/ SetQuality
    \/ CreateGif
    \/ GetSaveFileName
    \/ GetSaveFileNameCancelled
    \/ ExportNextFrame
    \/ ExportFinish

SpecExportAdd == Init /\ [][NextExportAdd]_vars

\* the runs in which create_gif is triggered again while an export is suspended
\* in processEvents(): frames are added, exports started, resumed and finished
NextReentry ==
    \/ SelectImages
    \/ CreateGif
    \/ GetSaveFileName
    \/ GetSaveFileNameCancelled
    \/ CreateGifDuringExport
    \/ ExportNextFrame
    \/ ExportFinish

SpecReentry == Init /\ [][NextReentry]_vars

\* the runs of the list view: frames are added, selected, dragged to another row,
\* removed, and the changes undone and redone
NextList ==
    \/ SelectImages
    \/ OnSelectImage
    \/ DeselectRow
    \/ DragStart
    \/ DragRow
    \/ DropFiles
    \/ RemoveSelectedFrame
    \/ Undo
    \/ Redo

SpecList == Init /\ [][NextList]_vars

\* the runs of the export options: frames are added, quality, loop count and
\* resolution are set, also while an export is suspended in processEvents(),
\* exports run and finish
NextOptions ==
    \/ SelectImages
    \/ SetQuality
    \/ SetLoopCount
    \/ SetResolution
    \/ CreateGif
    \/ GetSaveFileName
    \/ GetSaveFileNameCancelled
    \/ ExportNextFrame
    \/ ExportFinish

SpecOptions == Init /\ [][NextOptions]_vars

\* the runs of the loop count and the output format
NextLoop ==
    \/ SelectImages
    \/ SetLoopCount
    \/ SetOutputFormat
    \/ CreateGif
    \/ GetSaveFileName
    \/ GetSaveFileNameCancelled
    \/ ExportNextFrame
    \/ ExportFinish

SpecLoop == Init /\ [][NextLoop]_vars

\* the runs of the frame size: the resolution is picked and the optimize box
\* clicked, also between two frames of an export
NextResize ==
    \/ SelectImages
    \/ SetResolution
    \/ ToggleOptimize
    \/ CreateGif
    \/ GetSaveFileName
    \/ GetSaveFileNameCancelled
    \/ ExportNextFrame
    \/ ExportFinish

SpecResize == Init /\ [][NextResize]_vars

----------------------------------------------------------------------------
(* src/PhotoDesqueezer.py: main() submits one desqueeze_image task per picked  *)
(* file to a thread pool, takes the futures as they complete, leaves the `with` *)
(* block and prints "Complete". A future is "queued", "running" (rawpy.imread   *)
(* and postprocess ahead), "loaded" (resize and save ahead), "saved" (exiftool  *)
(* ahead), "finished" (returned) or "raised" (ended with an exception).         *)

\* the files the dialog offers; rawpy cannot read bad.dng
DngFiles == {"x.dng", "y.dng", "z.dng", "bad.dng"}

Unreadable(f) == f = "bad.dng"

\* img.size[0] of the developed raw file
DngWidth(f) == IF f = "x.dng" THEN 4001 ELSE 3000

\* os.path.splitext(file_path)[0] + "-desqueezed.tiff"
output_path(f) ==
    CASE f = "x.dng" -> "x-desqueezed.tiff"
      [] f = "y.dng" -> "y-desqueezed.tiff"
      [] f = "z.dng" -> "z-desqueezed.tiff"
      [] f = "bad.dng" -> "bad-desqueezed.tiff"

\* int(original_width * 1.5)
new_width(original_width) == (original_width * 3) \div 2

\* what filedialog.askopenfilenames can return: the picked files, each once, in
\* some order; empty when the dialog is cancelled
Selections ==
    {paths \in UNION {[1..n -> DngFiles] : n \in 0..MaxBatch} :
        \A i, j \in 1..Len(paths) : i # j => paths[i] # paths[j]}

\* what one write to sys.stdout adds to it: a text about a file, or the end of a
\* line. print(text) is two writes, the text and then "\n", and a write of
\* another thread can come between them
Line(text, file) == [text |-> text, file |-> file]

Newline == Line("\n", "")

\* main() up to the `with` statement
main_select(b, paths) ==
    [b EXCEPT !.file_paths = paths,
              !.phase = IF paths = <<>> THEN "collect" ELSE "submit"]

\* executor.submit(desqueeze_image, file_path) for the next file of file_paths
submit(b) ==
    LET n == Len(b.futures) + 1
    IN [b EXCEPT !.futures = Append(@, "queued"),
                 !.started = Append(@, 0),
                 !.phase = IF n = Len(b.file_paths) THEN "collect" ELSE "submit"]

\* a worker thread takes the task from the queue and enters desqueeze_image
start(b, i) == [b EXCEPT !.futures[i] = "running", !.started[i] = @ + 1]

\* an exception inside the try block: the thread is in the except clause
except(b, i) == [b EXCEPT !.futures[i] = "failed"]

\* rawpy.imread, raw.postprocess, Image.fromarray; ok is whether they succeed
load(b, i, ok) ==
    IF ok /\ ~Unreadable(b.file_paths[i])
    THEN [b EXCEPT !.futures[i] = "loaded"]
    ELSE except(b, i)

\* img.resize and desqueezed_img.save; ok is whether the file could be written
save(b, i, ok) ==
    LET f == b.file_paths[i]
    IN IF ok
       THEN [b EXCEPT !.futures[i] = "saved",
                      !.tiffs = @ \cup {[path |-> output_path(f),
                                         width |-> new_width(DngWidth(f))]}]
       ELSE except(b, i)

\* subprocess.run(['exiftool', ...]); ok is whether the program could be started
\* (its exit status is not looked at)
exiftool(b, i, ok) ==
    IF ok THEN [b EXCEPT !.futures[i] = "tagged"] ELSE except(b, i)

\* print(f"Saved desqueezed image to: {output_path}"), first write; written is
\* whether standard output took it. When it did not (it cannot encode the text, or
\* it cannot be written to) the write raises, inside the try block
print_saved(b, i, written) ==
    IF written
    THEN [b EXCEPT !.futures[i] = "saved_text",
                   !.stdout = Append(@, Line("Saved", output_path(b.file_paths[i])))]
    ELSE except(b, i)

\* the second write of that print; desqueeze_image returns after it
print_saved_end(b, i, written) ==
    IF written
    THEN [b EXCEPT !.futures[i] = "finished", !.stdout = Append(@, Newline)]
    ELSE except(b, i)

\* `except Exception as e: print(f"Failed to process {file_path}: {e}")`, first
\* write. A write that raises here raises inside the except clause: the exception
\* leaves desqueeze_image and the future keeps it
handler(b, i, written) ==
    IF written
    THEN [b EXCEPT !.futures[i] = "failed_text",
                   !.stdout = Append(@, Line("Failed", b.file_paths[i]))]
    ELSE [b EXCEPT !.futures[i] = "raised"]

\* the second write of that print; desqueeze_image returns after it
handler_end(b, i, written) ==
    IF written
    THEN [b EXCEPT !.futures[i] = "finished", !.stdout = Append(@, Newline)]
    ELSE [b EXCEPT !.futures[i] = "raised"]

\* the future has completed
Completed(b, i) == b.futures[i] \in {"finished", "raised"}

\* as_completed yields future i and main calls future.result(): an exception kept
\* by the future is raised in main, which leaves the loop
result(b, i) ==
    IF b.futures[i] = "raised"
    THEN [b EXCEPT !.phase = "unwinding"]
    ELSE [b EXCEPT !.yielded = @ \cup {i}]

\* the end of the `with` block, once shutdown(wait=True) has returned: main goes
\* on to print("Complete"), or the exception of future.result() goes on and ends
\* the script
leave_with(b) ==
    [b EXCEPT !.phase = IF b.phase = "unwinding" THEN "raised" ELSE "print"]

\* print("Complete"), first write; an exception of the write ends the script
print_complete(b, written) ==
    IF written
    THEN [b EXCEPT !.phase = "print_end", !.stdout = Append(@, Line("Complete", ""))]
    ELSE [b EXCEPT !.phase = "raised"]

\* the second write of that print; main returns after it
print_complete_end(b, written) ==
    IF written
    THEN [b EXCEPT !.phase = "done", !.stdout = Append(@, Newline)]
    ELSE [b EXCEPT !.phase = "raised"]

\* the futures a worker thread is busy with
Busy(b) ==
    {i \in 1..Len(b.futures) : b.futures[i] \notin {"queued", "finished", "raised"}}

\* the script is started: nothing of the GIF programs runs
InitDesqueeze ==
    /\ tool = "PhotoDesqueezer"
    /\ heap = << <<>> >>
    /\ alloc = << <<>> >>
    /\ images = 1
    /\ current_image_index = 0
    /\ current_row = -1
    /\ selected_items = {}
    /\ dragging = FALSE
    /\ image_list = <<>>
    /\ preview = ""
    /\ fps = DefaultFps
    /\ settings = DefaultSettings(tool)
    /\ is_playing = FALSE
    /\ timer_active = FALSE
    /\ timer_interval = 0
    /\ closed = FALSE
    /\ undo_stack = <<>>
    /\ redo_stack = <<>>
    /\ progress_value = -1
    /\ save_dialog = NoSaveDialog
    /\ exports = <<>>
    /\ disk = [d \in Dests |-> Absent]
    /\ dialog = "none"
    /\ exc = NoExc
    /\ recent = [cmds |-> "none", before |-> <<>>, after |-> <<>>]
    /\ lastOp = "init"
    /\ batch = NoBatch

\* the user picks files, or cancels the dialog
MainSelect ==
    /\ batch.phase = "dialog"
    /\ \E paths \in Selections : batch' = main_select(batch, paths)
    /\ UNCHANGED guiVars

\* main submits the next task
Submit ==
    /\ batch.phase = "submit"
    /\ batch' = submit(batch)
    /\ UNCHANGED guiVars

\* a free worker thread takes the oldest queued task
WorkerStart ==
    /\ Cardinality(Busy(batch)) < MaxWorkers
    /\ \E i \in 1..Len(batch.futures) :
          /\ batch.futures[i] = "queued"
          /\ \A j \in 1..(i - 1) : batch.futures[j] # "queued"
          /\ batch' = start(batch, i)
    /\ UNCHANGED guiVars

WorkerLoad ==
    /\ \E i \in 1..Len(batch.futures), ok \in BOOLEAN :
          /\ batch.futures[i] = "running"
          /\ batch' = load(batch, i, ok)
    /\ UNCHANGED guiVars

WorkerSave ==
    /\ \E i \in 1..Len(batch.futures), ok \in BOOLEAN :
          /\ batch.futures[i] = "loaded"
          /\ batch' = save(batch, i, ok)
    /\ UNCHANGED guiVars

WorkerExiftool ==
    /\ \E i \in 1..Len(batch.futures), ok \in BOOLEAN :
          /\ batch.futures[i] = "saved"
          /\ batch' = exiftool(batch, i, ok)
    /\ UNCHANGED guiVars

\* a worker thread writes the text of its "Saved" line
WorkerPrintSaved ==
    /\ \E i \in 1..Len(batch.futures), written \in BOOLEAN :
          /\ batch.futures[i] = "tagged"
          /\ batch' = print_saved(batch, i, written)
    /\ UNCHANGED guiVars

\* and the end of that line
WorkerPrintSavedEnd ==
    /\ \E i \in 1..Len(batch.futures), written \in BOOLEAN :
          /\ batch.futures[i] = "saved_text"
          /\ batch' = print_saved_end(batch, i, written)
    /\ UNCHANGED guiVars

\* a worker thread in the except clause writes the text of its "Failed" line
WorkerHandler ==
    /\ \E i \in 1..Len(batch.futures), written \in BOOLEAN :
          /\ batch.futures[i] = "failed"
          /\ batch' = handler(batch, i, written)
    /\ UNCHANGED guiVars

\* and the end of that line
WorkerHandlerEnd ==
    /\ \E i \in 1..Len(batch.futures), written \in BOOLEAN :
          /\ batch.futures[i] = "failed_text"
          /\ batch' = handler_end(batch, i, written)
    /\ UNCHANGED guiVars

\* as_completed hands main a completed future it has not handed out yet
MainResult ==
    /\ batch.phase = "collect"
    /\ \E i \in 1..Len(batch.futures) \ batch.yielded :
          /\ Completed(batch, i)
          /\ batch' = result(batch, i)
    /\ UNCHANGED guiVars

\* main leaves the `with` block: after the loop when every future was handed out,
\* or on an exception; shutdown(wait=True) waits for every task
MainLeaveWith ==
    /\ \/ batch.phase = "collect" /\ batch.yielded = 1..Len(batch.file_paths)
       \/ batch.phase = "unwinding"
    /\ \A i \in 1..Len(batch.futures) : Completed(batch, i)
    /\ batch' = leave_with(batch)
    /\ UNCHANGED guiVars

\* main writes the text "Complete"
MainPrintComplete ==
    /\ batch.phase = "print"
    /\ \E written \in BOOLEAN : batch' = print_complete(batch, written)
    /\ UNCHANGED guiVars

\* and the end of that line
MainPrintCompleteEnd ==
    /\ batch.phase = "print_end"
    /\ \E written \in BOOLEAN : batch' = print_complete_end(batch, written)
    /\ UNCHANGED guiVars

NextDesqueeze ==
    \/ MainSelect
    \/ Submit
    \/ WorkerStart
    \/ WorkerLoad
    \/ WorkerSave
    \/ WorkerExiftool
    \/ WorkerPrintSaved
    \/ WorkerPrintSavedEnd
    \/ WorkerHandler
    \/ WorkerHandlerEnd
    \/ MainResult
    \/ MainLeaveWith
    \/ MainPrintComplete
    \/ MainPrintCompleteEnd

\* the runs of src/PhotoDesqueezer.py
SpecDesqueeze == InitDesqueeze /\ [][NextDesqueeze]_vars

\* the same runs, where main and the worker threads keep being scheduled
FairSpecDesqueeze == SpecDesqueeze /\ WF_vars(NextDesqueeze)

----------------------------------------------------------------------------
(* Claims *)

Entries == {undo_stack[i] : i \in 1..Len(undo_stack)} \cup {redo_stack[i] : i \in 1..Len(redo_stack)}

\* C1: an undo that follows a mutation (no undo or redo since it) leaves the frame
\* list exactly as it was before that mutation, and a redo right after that undo
\* leaves it exactly as it was after the mutation.
C1_UndoThenRedoAfterMutation ==
    /\ recent.cmds = "mut_undo" => Frames = recent.before
    /\ recent.cmds = "mut_undo_redo" => Frames = recent.after

\* [a,b,bad], remove row 1 gives [a,bad], undo gives [a,b,bad], redo gives [a,bad]
C1_Witness ==
    /\ recent.cmds = "mut_undo_redo"
    /\ recent.before = <<"a.png", "b.png", "bad.png">>
    /\ recent.after = <<"a.png", "bad.png">>
    /\ Frames = <<"a.png", "bad.png">>

\* C2: every entry on the undo stack and on the redo stack still holds the lists
\* it was recorded with.
C2_SnapshotsImmutable ==
    \A e \in Entries :
        /\ heap[e.old_state] = alloc[e.old_state]
        /\ heap[e.new_state] = alloc[e.new_state]

\* C3: while an export is in flight no command changes the list the export
\* iterates, which stays what the project held at its start, and the frames it
\* hands to the encoder are exactly those.
C3_ExportWorksOnStartSequence ==
    [][exports # <<>> =>
         LET e == exports[Len(exports)] IN
         /\ heap'[e.it] = e.start
         /\ (lastOp' = "create_gif_finish" /\ exc' = NoExc) => e.out = e.start]_vars

\* C4: with no frames, play, a timer tick, next and prev change neither the
\* preview index nor the playback state, and raise nothing.
C4_EmptyProjectPlaybackNoOp ==
    [][(Frames = <<>> /\ lastOp' \in {"toggle_play", "timer_tick", "next_frame", "prev_frame"}) =>
         /\ current_image_index' = current_image_index
         /\ is_playing' = is_playing
         /\ timer_active' = timer_active
         /\ exc' = NoExc]_vars

\* C5: an export that fails in decoding or encoding leaves no partly written
\* destination file.
C5_FailedExportLeavesNoFile ==
    (exc.kind \in {"UnidentifiedImageError", "mimsave"} /\ exports # <<>>) =>
        disk[exports[Len(exports)].output_file].status # "partial"

\* C6: create_gif on a project with no frames shows the "No Images" warning and
\* does nothing else: no destination is asked for or written, no export starts,
\* the frame list and both history stacks stay as they were.
C6_EmptyExportRefused ==
    [][(lastOp' = "create_gif" /\ Frames = <<>>) =>
         /\ dialog' = "No Images"
         /\ exc' = NoExc
         /\ UNCHANGED <<heap, images, undo_stack, redo_stack, save_dialog, exports,
                        disk, progress_value>>]_vars

C6_Witness ==
    /\ lastOp = "create_gif"
    /\ Frames = <<>>
    /\ dialog = "No Images"
    /\ undo_stack # <<>>

\* C7: in src/MakeGif.py every mutation pushes exactly one entry, made of the
\* action kind and the frame list before and after it, onto the undo stack, and
\* leaves the redo stack empty.
C7_MutationRecordsAndClearsRedo ==
    [][(tool = "MakeGif" /\ Mutates(lastOp')) =>
         /\ Len(undo_stack') = Len(undo_stack) + 1
         /\ SubSeq(undo_stack', 1, Len(undo_stack)) = undo_stack
         /\ LET action == undo_stack'[Len(undo_stack')] IN
            /\ action.action_type =
                 (IF lastOp' = "select_images" THEN "add_images" ELSE "remove_frame")
            /\ heap'[action.old_state] = Frames
            /\ heap'[action.new_state] = Frames'
         /\ redo_stack' = <<>>]_vars

\* a mutation made after an undo: two mutations were made, one entry is left
C7_Witness ==
    /\ tool = "MakeGif"
    /\ lastOp \in {"select_images", "remove_selected_frame"}
    /\ recent.cmds = "mut"
    /\ Edits = 2
    /\ Len(undo_stack) = 1
    /\ redo_stack = <<>>

\* C8: undo with an empty undo stack and redo with an empty redo stack change
\* nothing (frame list, both stacks, preview index) and raise nothing.
C8_UnderflowIsNoOp ==
    [][((lastOp' = "undo" /\ undo_stack = <<>>) \/ (lastOp' = "redo" /\ redo_stack = <<>>)) =>
         /\ exc' = NoExc
         /\ UNCHANGED <<heap, images, undo_stack, redo_stack, current_image_index,
                        current_row, selected_items, preview, dialog>>]_vars

\* a redo on an empty redo stack, with frames in the project
C8_Witness ==
    /\ lastOp = "redo"
    /\ recent.cmds = "redo_noop"
    /\ redo_stack = <<>>
    /\ Frames # <<>>
    /\ exc = NoExc

\* C9: select_images appends the selected files to the frame list.
C9_AddAppends ==
    [][lastOp' = "select_images" =>
         \E files \in FileLists : Frames' = Frames \o files]_vars

\* C10: removing row i of an N-frame list leaves the N-1 frames of the list
\* without position i, in their order.
C10_RemoveDeletesExactlyRow ==
    [][(lastOp' = "remove_selected_frame" /\ current_row # -1) =>
         LET i == current_row IN
         /\ 0 <= i /\ i < Len(Frames)
         /\ Len(Frames') = Len(Frames) - 1
         /\ \A k \in 1..Len(Frames') :
               Frames'[k] = IF k <= i THEN Frames[k] ELSE Frames[k + 1]]_vars

\* the middle row of [a,b,bad] was removed
C10_Witness ==
    /\ lastOp = "remove_selected_frame"
    /\ recent.cmds = "mut"
    /\ recent.before = <<"a.png", "b.png", "bad.png">>
    /\ Frames = <<"a.png", "bad.png">>

\* C11: in src/MakeGif.py a remove whose row is out of range (no row selected: -1)
\* fails with an IndexError that is surfaced, and leaves the frame list and both
\* history stacks as they were.
C11_RemoveOutOfRangeFails ==
    [][(tool = "MakeGif" /\ lastOp' = "remove_selected_frame" /\ ~(0 <= current_row /\ current_row < Len(Frames))) =>
         /\ exc'.kind = "IndexError" \/ dialog' = "IndexError"
         /\ UNCHANGED <<heap, images, undo_stack, redo_stack>>]_vars

\* files holds a source that cannot be decoded
HasCorrupt(files) == \E i \in 1..Len(files) : Corrupt(files[i])

\* C12: in src/MakeGif.py an add whose input list holds a source that cannot be
\* read adds nothing: the frame list and both history stacks stay as they were.
C12_AddIsAtomic ==
    [][\A files \in FileLists :
         (/\ HasCorrupt(files)
          /\ tool = "MakeGif"
          /\ lastOp' = "select_images"
          /\ heap' = select_images(St, files).heap
          /\ images' = select_images(St, files).images) =>
             /\ Frames' = Frames
             /\ UNCHANGED <<undo_stack, redo_stack>>]_vars

\* C13: the frames an export of src/MakeGif.py hands to the encoder are the
\* frames of the project, one each, in the project's order (the project as it was
\* when the export started, or as it is when the encoder is called).
C13_EncoderGetsProjectOrder ==
    [][(tool = "MakeGif" /\ exports # <<>> /\ lastOp' = "create_gif_finish" /\ exc' = NoExc) =>
         LET e == exports[Len(exports)] IN
         e.out = e.start \/ e.out = Frames]_vars

\* C14: once the user has asked to stop while an export of src/MakeGif.py is
\* suspended between two frames, the export processes no further frame and
\* writes no destination file.
C14_CancelStopsExport ==
    [][(tool = "MakeGif" /\ closed /\ exports # <<>>) =>
         /\ lastOp' # "export_frame"
         /\ disk' = disk]_vars

\* C15: with N >= 1 frames, next sets the preview index to (index + 1) mod N and
\* prev to (index - 1) mod N, playing or stopped, and the index is in 0..N-1
\* afterwards.
C15_NextPrevWrap ==
    [][(Len(Frames) >= 1 /\ lastOp' \in {"next_frame", "prev_frame"}) =>
         LET N == Len(Frames) IN
         /\ lastOp' = "next_frame" => current_image_index' = (current_image_index + 1) % N
         /\ lastOp' = "prev_frame" => current_image_index' = (current_image_index - 1 + N) % N
         /\ current_image_index' \in 0..(N - 1)
         /\ exc' = NoExc]_vars

\* next on the last of three frames, while playing, wrapped to the first
C15_Witness ==
    /\ lastOp = "next_frame"
    /\ is_playing
    /\ Len(Frames) = 3
    /\ current_image_index = 0
    /\ preview = Frames[1]

\* C16: the tick is scheduled exactly when is_playing holds; play goes from
\* stopped to playing and schedules the tick every 1000 // fps ms, pause goes from
\* playing to stopped and cancels it; a tick, with N >= 1 frames, happens only
\* while playing and moves the index to (index + 1) mod N.
C16_PlaybackStateMachine ==
    /\ [](timer_active <=> is_playing)
    /\ [][/\ lastOp' = "toggle_play" =>
               IF is_playing
               THEN ~is_playing' /\ ~timer_active'
               ELSE is_playing' /\ timer_active' /\ timer_interval' = MsPerSecond \div fps
          /\ lastOp' # "toggle_play" => is_playing' = is_playing
          /\ (lastOp' = "timer_tick" /\ Len(Frames) >= 1) =>
               /\ is_playing
               /\ current_image_index' = (current_image_index + 1) % Len(Frames)]_vars

\* played at 30 frames per second, a tick wrapped from the last frame to the first
C16_Witness ==
    /\ lastOp = "timer_tick"
    /\ is_playing
    /\ timer_active
    /\ fps = 30
    /\ timer_interval = 33
    /\ Len(Frames) = 3
    /\ current_image_index = 0

\* C17: in src/MakeGif.py, once a tick has fired after a change of the frame rate
\* during playback, the ticks that follow come at the period of the new rate.
C17_FpsChangeTakesEffect ==
    [][(tool = "MakeGif" /\ lastOp' = "timer_tick" /\ exc' = NoExc) =>
         timer_interval' = MsPerSecond \div fps']_vars

\* C18: play, pause, a tick, next, prev, selecting a frame, zooming and changing
\* the frame rate leave the frame list and both history stacks as they were.
C18_ReadsLeaveProjectAlone ==
    [][lastOp' \in {"toggle_play", "timer_tick", "next_frame", "prev_frame",
                    "on_select_image", "update_zoom", "update_fps"} =>
         /\ Frames' = Frames
         /\ UNCHANGED <<heap, images, undo_stack, redo_stack>>]_vars

\* the frame rate was changed during playback, with frames and history present
C18_Witness ==
    /\ lastOp = "update_fps"
    /\ fps = 60
    /\ is_playing
    /\ Len(undo_stack) = 2
    /\ Len(Frames) = 2

\* C19: the steps of an export (the refusal for an empty project, every frame of
\* the loop, the call of the encoder whether it succeeds or fails) leave the frame
\* list, both history stacks, the frame rate and the export options as they were.
C19_ExportIsReadOnly ==
    [][lastOp' \in {"create_gif", "create_gif_save", "export_frame",
                    "create_gif_finish"} =>
         /\ Frames' = Frames
         /\ UNCHANGED <<heap, images, undo_stack, redo_stack, fps, settings>>]_vars

\* an export was written with both history stacks filled and the frame rate and
\* the options changed from their defaults
C19_Witness ==
    /\ lastOp = "create_gif_finish"
    /\ disk["out"].status = "complete"
    /\ undo_stack # <<>>
    /\ redo_stack # <<>>
    /\ settings # DefaultSettings(tool)
    /\ fps = 60

\* C30: undo and redo neither create nor destroy history entries: the undo stack
\* followed by the reversed redo stack is the same sequence before and after; an
\* undo moves the top undo entry onto the redo stack, a redo moves the top redo
\* entry onto the undo stack, and the lists the entries hold are not touched.
C30_UndoRedoConserveEntries ==
    [][lastOp' \in {"undo", "redo"} =>
         LET Timeline(u, r) == u \o [i \in 1..Len(r) |-> r[Len(r) + 1 - i]] IN
         /\ Timeline(undo_stack', redo_stack') = Timeline(undo_stack, redo_stack)
         /\ (lastOp' = "undo" /\ undo_stack # <<>>) =>
               /\ undo_stack' = SubSeq(undo_stack, 1, Len(undo_stack) - 1)
               /\ redo_stack' = Append(redo_stack, undo_stack[Len(undo_stack)])
         /\ (lastOp' = "redo" /\ redo_stack # <<>>) =>
               /\ redo_stack' = SubSeq(redo_stack, 1, Len(redo_stack) - 1)
               /\ undo_stack' = Append(undo_stack, redo_stack[Len(redo_stack)])
         /\ heap' = heap]_vars

\* two mutations, then an undo: one entry on each stack
C30_Witness ==
    /\ lastOp = "undo"
    /\ Len(undo_stack) = 1
    /\ Len(redo_stack) = 1
    /\ undo_stack[1].action_type = "add_images"
    /\ redo_stack[1].action_type = "remove_frame"

\* C27: in src/MakeGif.py, whenever the preview shows an image, current_image_index
\* is an index of the frame list (so that images[current_image_index] can be read).
C27_PreviewIndexValid ==
    (tool = "MakeGif" /\ preview # "") =>
        (0 <= current_image_index /\ current_image_index < Len(Frames))

\* C28: in src/MakeGif.py at most one export is in flight: a create_gif delivered
\* while an export is running does not start a second one.
C28_OneExportInFlight ==
    tool = "MakeGif" => Len(exports) <= 1

\* C25: when an export of N frames has processed its k-th frame, the progress bar
\* reads k/N of its full scale of 100; during the frame loop it never goes down,
\* and it reads 100 only once all N frames are processed.
C25_ProgressIsFraction ==
    [][(\/ lastOp' = "export_frame"
        \/ lastOp' = "create_gif_save" /\ Len(exports') > Len(exports))
       /\ exc' = NoExc
          => LET e == exports'[Len(exports')]
                 N == Len(e.start)
             IN  /\ progress_value' = (e.pos * 100) \div N
                 /\ lastOp' = "export_frame" => progress_value' >= progress_value
                 /\ progress_value' = 100 => e.pos = N]_vars

\* C21: the export options are always in range: quality within 1..100, loop count
\* not negative, an explicit target height positive; and every file an export
\* wrote with a quality argument got one within 1..100.
C21_SettingsInRange ==
    /\ settings.quality \in QualityMin..QualityMax
    /\ settings.loop_count >= 0
    /\ settings.resolution \in ResolutionItems
    /\ settings.resolution # "Original" => TargetHeight(settings.resolution) > 0
    /\ \A dest \in Dests :
          (disk[dest].format = "webp" \/ disk[dest].optimize)
              => disk[dest].quality \in QualityMin..QualityMax

\* C21 witness: an export has written a file after the user pushed the quality
\* past the top of its range, with a loop count and a target height set.
C21_Witness ==
    /\ lastOp = "create_gif_finish"
    /\ disk["out"].status = "complete"
    /\ disk["out"].quality = QualityMax
    /\ disk["out"].loop = 2
    /\ settings.resolution = "360p"

\* this step ran the loop body of an export on one more frame
DecodedFrame ==
    /\ \/ lastOp' = "export_frame"
       \/ lastOp' = "create_gif_save" /\ Len(exports') > Len(exports)
    /\ exc' = NoExc

\* the array the loop body appended in this step, and its file
NewArray == LET e == exports'[Len(exports')] IN e.arrays[Len(e.arrays)]

NewFile == LET e == exports'[Len(exports')] IN e.out[Len(e.out)]

\* C22: in src/MakeGif.py with an explicit target height H and no 800 cap, a source
\* frame of w x h pixels is resized to height H and width round(H * w / h).
C22_ResizeRoundsWidth ==
    [][(DecodedFrame /\ tool = "MakeGif" /\ settings.resolution # "Original"
          /\ ~settings.optimize)
          => LET H == TargetHeight(settings.resolution)
                 w == Width(NewFile)
                 h == Height(NewFile)
             IN /\ NewArray.height = H
                /\ NewArray.width = (2 * H * w + h) \div (2 * h)]_vars

\* C23: a frame decoded with optimize on fits within 800 x 800 and keeps the aspect
\* ratio (to the pixel) of the frame as it was after the change of resolution; a
\* frame decoded with resolution Original and optimize off keeps the size of its
\* source. Each frame is decoded under the options set at that moment.
C23_OptimizeCapsFrame ==
    [][DecodedFrame
          => LET pre == resize(St, open(NewFile))
                 longer == IF pre.width >= pre.height THEN pre.width ELSE pre.height
             IN /\ settings.optimize
                     => /\ NewArray.width <= ThumbnailSide
                        /\ NewArray.height <= ThumbnailSide
                        /\ NewArray.width >= 1 /\ NewArray.height >= 1
                        /\ Dist(NewArray.width * pre.height, NewArray.height * pre.width)
                               < longer
                        /\ (pre.width <= ThumbnailSide /\ pre.height <= ThumbnailSide)
                               => (NewArray.width = pre.width
                                   /\ NewArray.height = pre.height)
                /\ (~settings.optimize /\ settings.resolution = "Original")
                     => /\ NewArray.width = Width(NewFile)
                        /\ NewArray.height = Height(NewFile)]_vars

\* C23 witness: with 1080p and optimize on, a.png was enlarged to 1619 x 1080 and
\* then capped to 800 x 534.
C23_Witness ==
    /\ exports # <<>>
    /\ lastOp \in {"create_gif_save", "export_frame"}
    /\ settings.optimize
    /\ settings.resolution = "1080p"
    /\ LET e == exports[Len(exports)]
       IN /\ e.arrays # <<>>
          /\ e.out[Len(e.out)] = "a.png"
          /\ e.arrays[Len(e.arrays)].width = ThumbnailSide
          /\ e.arrays[Len(e.arrays)].height = 534

\* C24: the file an export writes, GIF or WebP, carries the loop count configured
\* when the frames are handed to the encoder: 0 for looping forever, N for N
\* repeats.
C24_LoopCountIsWritten ==
    [][(lastOp' = "create_gif_finish" /\ exc' = NoExc /\ exports # <<>>
          /\ exports[Len(exports)].out # <<>>)
          => LET e == exports[Len(exports)]
                 file == disk'[e.output_file]
             IN /\ file.status = "complete"
                /\ file.loop = settings.loop_count
                /\ file.format \in {"gif", "webp"}
                /\ tool = "MakeGif" => file.format = e.output_format]_vars

\* C24 witness: a WebP was written with a loop count of 2.
C24_Witness ==
    /\ lastOp = "create_gif_finish"
    /\ exc = NoExc
    /\ settings.loop_count = 2
    /\ disk["out"].status = "complete"
    /\ disk["out"].format = "webp"
    /\ disk["out"].loop = 2

\* the pixel modes of Pillow that carry alpha
AlphaModes == {"RGBA", "LA", "PA", "RGBa", "La"}

\* C26: no frame with an alpha channel reaches the encoder: every array handed to
\* imageio.mimsave comes from an image whose mode carries no alpha.
C26_NoAlphaToEncoder ==
    [][(lastOp' = "create_gif_finish" /\ exports # <<>>
          /\ exports[Len(exports)].out # <<>>)
          => \A i \in 1..Len(exports[Len(exports)].arrays) :
                exports[Len(exports)].arrays[i].mode \notin AlphaModes]_vars

\* C29: in src/MakeGif.py row k of the list view shows frame k of self.images, so
\* the frame remove_selected_frame deletes is the one shown in the selected row.
C29_RowsShowFrames ==
    tool = "MakeGif" => image_list = Frames

\* the reports about file f on standard output: the writes of the text of a
\* "Saved" line (it names the output path of f) or of a "Failed" line
ReportsAbout(f) ==
    {k \in 1..Len(batch.stdout) :
        \/ batch.stdout[k] = Line("Failed", f)
        \/ batch.stdout[k] = Line("Saved", output_path(f))}

\* main is over: "Complete" was printed, or an exception ended the script
Ended == batch.phase \in {"done", "raised"}

\* desqueeze_image ran at most once for each file and no exception left it, so
\* none reached main through future.result(); no file is reported twice; once
\* "Complete" is written or main is over, every picked file has a task that ran
\* once and returned, and exactly one report; and "Complete" is written by main
\* after all of that, as the last text
C31_Safe ==
    /\ batch.phase # "unwinding"
    /\ \A i \in 1..Len(batch.futures) :
          /\ batch.started[i] <= 1
          /\ batch.futures[i] # "raised"
          /\ Cardinality(ReportsAbout(batch.file_paths[i])) <= 1
    /\ (Ended \/ \E k \in 1..Len(batch.stdout) : batch.stdout[k].text = "Complete")
          => /\ Len(batch.futures) = Len(batch.file_paths)
             /\ \A i \in 1..Len(batch.file_paths) :
                   /\ batch.futures[i] = "finished"
                   /\ batch.started[i] = 1
                   /\ Cardinality(ReportsAbout(batch.file_paths[i])) = 1
    /\ \A k \in 1..Len(batch.stdout) :
          batch.stdout[k].text = "Complete"
              => /\ batch.phase \in {"print_end", "done", "raised"}
                 /\ \A m \in (k + 1)..Len(batch.stdout) : batch.stdout[m] = Newline

\* C31: in src/PhotoDesqueezer.py every picked file is processed exactly once, a
\* failure on one file is caught and reported for that file while the others are
\* still processed, and "Complete" is printed only after every task has finished;
\* main comes to its end.
C31_BatchProcessesEveryFile ==
    /\ []C31_Safe
    /\ <>Ended

====
